---- MODULE Spec2Model ----
(***************************************************************************)
(* Model of the block-triggered proving pipeline of pico-proving-service   *)
(* (src/bin/test_reth_prove.rs): CLI configuration, gRPC client set-up,    *)
(* best-effort application registration, the filtered block subscription   *)
(* and the sequential wait / execute / encode / ProveTask / EstimateCost   *)
(* loop with its `?`-propagated failures; and of the offline converter     *)
(* (src/bin/normalize_reth_inputs.rs) that turns a stored execution input  *)
(* into the serialized stdin builder.  A run is one of the two programs.   *)
(***************************************************************************)
EXTENDS Integers, Sequences, FiniteSets, TLC

\* ---------------------------------------------------------------- bounds
\* headers the subscription delivers in one run
MaxHeaders == 2
\* smallest block number a header carries
MinBlock == 9
\* largest block number a header carries
MaxBlock == 10
\* largest --block-interval tried (0 is included)
MaxInterval == 2

\* default_value_t of --block-interval
DefaultBlockInterval == 100

Blocks == MinBlock..MaxBlock
Intervals == 0..MaxInterval
\* the opaque witness data block_executor.execute may return for a block
Witnesses == {"w1", "w2"}
\* the possible contents of the program image file fixtures/reth-elf
Elfs == {"elf1", "elf2"}

VARIABLES
    pc,             \* position of main()
    cli,            \* parsed Cli: block_interval, use_gpu, estimate_cost
    app_id,         \* main's app_id (<<>> until register_reth returned)
    stream,         \* the block subscription: "none", "open" or "ended"
    delivered,      \* block numbers the subscription has yielded, in order
    block_number,   \* header.number of the header being processed (0: none)
    client_input,   \* result of block_executor.execute (NoInput: none)
    block_inputs,   \* bincode::serialize(&stdin_builder) (<<>>: none)
    calls,          \* every call/step main has issued, in order, with result
    logged,         \* what register_reth, prove_task and estimate_cost logged
    exit,           \* how main ended: kind "none", "ok", "err" or "panic"
    norm_pc,        \* position of the converter's main() ("none": not run)
    input_file,     \* the file at cli.input: exists, bytes
    norm_input,     \* the converter's client_input (NoInput: none)
    stdin_builder,  \* the converter's stdin_builder
    output_file,    \* the file at cli.output: exists, bytes
    norm_exit       \* how the converter's main ended

pvars == <<pc, cli, app_id, stream, delivered, block_number, client_input,
           block_inputs, calls, logged, exit>>

nvars == <<norm_pc, input_file, norm_input, stdin_builder, output_file, norm_exit>>

vars == <<pc, cli, app_id, stream, delivered, block_number, client_input,
          block_inputs, calls, logged, exit,
          norm_pc, input_file, norm_input, stdin_builder, output_file, norm_exit>>

\* ------------------------------------------------------ values and helpers
NoInput == [block |-> 0, witness |-> "none"]
NoApp == <<>>
Running == [kind |-> "none", msg |-> <<>>]
ExitOk == [kind |-> "ok", msg |-> <<>>]
ExitErr(m) == [kind |-> "err", msg |-> m]
ExitPanic(m) == [kind |-> "panic", msg |-> m]

\* a path of the file system: whether a file is there, and its bytes
NoFile == [exists |-> FALSE, bytes |-> <<>>]
FileOf(bytes) == [exists |-> TRUE, bytes |-> bytes]

\* content-derived application identity (App::new(&elf, None))
AppNew(elf) == <<"app", elf>>

\* decimal rendering of an unsigned integer, as `{block_number}` formats it
DigitChar(d) == <<"0", "1", "2", "3", "4", "5", "6", "7", "8", "9">>[d + 1]

RECURSIVE Decimal(_)
Decimal(n) == IF n < 10 THEN <<DigitChar(n)>>
              ELSE Decimal(n \div 10) \o <<DigitChar(n % 10)>>

\* faulty task identifier: the position in the header sequence is appended
TaskIdWithPosition(n) ==
    <<"t", "a", "s", "k", "-", "b", "l", "o", "c", "k", "-">>
        \o Decimal(n) \o <<"-">> \o Decimal(Len(delivered))

\* format!("task-block-{block_number}")
TaskId(n) == <<"t", "a", "s", "k", "-", "b", "l", "o", "c", "k", "-">> \o Decimal(n)

\* bincode image of one EthClientExecutorInput
BincodeInput(x) == <<x.block, x.witness>>

\* bincode::deserialize_from::<EthClientExecutorInput>: reads the fields in
\* order and fails when the bytes run out; bytes after the value are not read
DeserializeInput(bytes) ==
    IF Len(bytes) >= 2
    THEN [ok |-> TRUE, value |-> [block |-> bytes[1], witness |-> bytes[2]]]
    ELSE [ok |-> FALSE, value |-> NoInput]

\* EmulatorStdinBuilder::default(): an empty buffer of byte vectors
NewBuilder == <<>>

\* stdin_builder.write::<EthClientExecutorInput>(&x): push the value's image
BuilderWrite(b, x) == Append(b, BincodeInput(x))

\* bincode::serialize(&stdin_builder): length-prefixed vector of
\* length-prefixed byte vectors
RECURSIVE SerializeItems(_)
SerializeItems(b) == IF b = <<>> THEN <<>>
                     ELSE <<Len(Head(b))>> \o Head(b) \o SerializeItems(Tail(b))

\* faulty encoding: the written values are emitted without the builder's
\* own framing
SerializeBuilderRaw(b) == SerializeItems(b)

SerializeBuilder(b) == <<Len(b)>> \o SerializeItems(b)

\* the loader's side of the encoding: bincode::deserialize of a builder,
\* a count followed by that many length-prefixed byte vectors
RECURSIVE DeserializeItems(_, _)
DeserializeItems(bytes, n) ==
    IF n = 0 THEN [ok |-> TRUE, builder |-> <<>>]
    ELSE IF Len(bytes) < 1 \/ Len(bytes) < 1 + bytes[1]
         THEN [ok |-> FALSE, builder |-> <<>>]
         ELSE LET rest == DeserializeItems(SubSeq(bytes, 2 + bytes[1], Len(bytes)), n - 1)
              IN  IF rest.ok
                  THEN [ok |-> TRUE,
                        builder |-> <<SubSeq(bytes, 2, 1 + bytes[1])>> \o rest.builder]
                  ELSE [ok |-> FALSE, builder |-> <<>>]

DeserializeBuilder(bytes) ==
    IF Len(bytes) < 1 THEN [ok |-> FALSE, builder |-> <<>>]
    ELSE DeserializeItems(SubSeq(bytes, 2, Len(bytes)), bytes[1])

\* one entry of the call trace
Call(op, hdr, block, app, task, inputs, gpu, result) ==
    [op |-> op, hdr |-> hdr, block |-> block, app_id |-> app, task_id |-> task,
     inputs |-> inputs, use_gpu |-> gpu, result |-> result]

\* one line written by warn! / info! about a response: the call it is about
\* and the error it shows ("None" for err=None)
LogLine(level, op, err) == [level |-> level, op |-> op, err |-> err]

\* the err field of a response as info! prints it
ErrField(r) == IF r = "embedded_err" THEN "Some" ELSE "None"

\* the response of the call in flight has arrived
Respond(r) == [calls EXCEPT ![Len(calls)].result = r]

\* faulty filter: the comparison is negated
FilterNegated(n) == n % cli.block_interval # 0

\* faulty filter: off by one, the header before each multiple is forwarded
FilterOffByOne(n) == (n + 1) % cli.block_interval = 0

\* the stream filter of main: header.number % cli.block_interval == 0
Filter(n) == n % cli.block_interval = 0

\* ------------------------------------------------------------------- Init
\* after Cli::parse(): block_interval is any u64 (default 100), no validation
\* the converter is not the program of this run
NormIdle ==
    /\ norm_pc = "none"
    /\ input_file = NoFile
    /\ norm_input = NoInput
    /\ stdin_builder = NewBuilder
    /\ output_file = NoFile
    /\ norm_exit = Running

InitWith(intervals) ==
    /\ pc = "connect_grpc"
    /\ cli \in [block_interval : intervals, use_gpu : BOOLEAN, estimate_cost : BOOLEAN]
    /\ app_id = NoApp
    /\ stream = "none"
    /\ delivered = <<>>
    /\ block_number = 0
    /\ client_input = NoInput
    /\ block_inputs = <<>>
    /\ calls = <<>>
    /\ logged = <<>>
    /\ exit = Running
    /\ NormIdle

\* the execution inputs a stored file may hold
StoredInputs == [block : Blocks \cup {12345}, witness : Witnesses]

\* what may be found at cli.input: nothing, an empty or cut-off file, the
\* bincode image of an execution input, or such an image with bytes after it
InputFiles ==
    {NoFile, FileOf(<<>>)}
        \cup {FileOf(BincodeInput(x)) : x \in StoredInputs}
        \cup {FileOf(SubSeq(BincodeInput(x), 1, 1)) : x \in StoredInputs}
        \cup {FileOf(BincodeInput(x) \o <<0>>) : x \in StoredInputs}

\* what may be found at cli.output before the run: nothing or an older file
OldOutput == FileOf(<<0>>)

\* normalize_reth_inputs after Cli::parse(): the pipeline is not run
NormalizeInit ==
    /\ pc = "none"
    /\ cli = [block_interval |-> DefaultBlockInterval, use_gpu |-> FALSE,
              estimate_cost |-> FALSE]
    /\ app_id = NoApp
    /\ stream = "none"
    /\ delivered = <<>>
    /\ block_number = 0
    /\ client_input = NoInput
    /\ block_inputs = <<>>
    /\ calls = <<>>
    /\ logged = <<>>
    /\ exit = Running
    /\ norm_pc = "open"
    /\ input_file \in InputFiles
    /\ norm_input = NoInput
    /\ stdin_builder = NewBuilder
    /\ output_file \in {NoFile, OldOutput}
    /\ norm_exit = Running

\* a run is one of the two programs of the repository
Init == InitWith(Intervals) \/ NormalizeInit

\* ---------------------------------------------------------------- actions
\* prover_network_client(&cli).await?
ConnectGrpc ==
    /\ pc = "connect_grpc"
    /\ \E ok \in BOOLEAN :
         IF ok THEN pc' = "register" /\ exit' = exit
         ELSE pc' = "done" /\ exit' = ExitErr(<<"transport error">>)
    /\ UNCHANGED <<cli, app_id, stream, delivered, block_number, client_input,
                   block_inputs, calls>>
    /\ UNCHANGED logged
    /\ UNCHANGED nvars

\* faulty register_reth: the request is spawned and start-up goes on without
\* waiting for its response
RegisterSendDetached ==
    /\ pc = "register"
    /\ \/ /\ pc' = "done"
          /\ exit' = ExitErr(<<"io error">>)
          /\ UNCHANGED <<app_id, calls>>
       \/ \E elf \in Elfs :
            /\ app_id' = AppNew(elf)
            /\ calls' = Append(calls, Call("register_app", 0, 0, NoApp, <<>>,
                                           <<elf>>, FALSE, "pending"))
            /\ pc' = "init_executor"
            /\ exit' = exit
    /\ UNCHANGED <<cli, stream, delivered, block_number, client_input, block_inputs>>
    /\ UNCHANGED logged
    /\ UNCHANGED nvars

\* register_reth up to the await of register_app: read the image, derive the
\* identity locally, send RegisterAppRequest
RegisterSend ==
    /\ pc = "register"
    /\ \/ /\ pc' = "done"
          /\ exit' = ExitErr(<<"io error">>)
          /\ UNCHANGED <<app_id, calls>>
       \/ \E elf \in Elfs :
            /\ app_id' = AppNew(elf)
            /\ calls' = Append(calls, Call("register_app", 0, 0, NoApp, <<>>,
                                           <<elf>>, FALSE, "pending"))
            /\ pc' = "register_await"
            /\ exit' = exit
    /\ UNCHANGED <<cli, stream, delivered, block_number, client_input, block_inputs>>
    /\ UNCHANGED logged
    /\ UNCHANGED nvars

\* faulty register_reth: the Err of register_app is propagated with `?`
RegisterRecvPropagate ==
    /\ pc = "register_await"
    /\ \E r \in {"ok", "already_registered", "other_err"} :
         /\ calls' = Respond(r)
         /\ IF r = "ok" THEN pc' = "init_executor" /\ exit' = exit
            ELSE pc' = "done" /\ exit' = ExitErr(<<"grpc status">>)
    /\ UNCHANGED logged
    /\ UNCHANGED <<cli, app_id, stream, delivered, block_number, client_input,
                   block_inputs>>
    /\ UNCHANGED nvars

\* faulty register_reth: the identity is taken from the response, so a failed
\* registration leaves none
RegisterRecvIdFromResponse ==
    /\ pc = "register_await"
    /\ \E r \in {"ok", "already_registered", "other_err"} :
         /\ calls' = Respond(r)
         /\ logged' = IF r = "ok" THEN logged
                       ELSE Append(logged, LogLine("warn", "RegisterApp", r))
         /\ app_id' = IF r = "ok" THEN app_id ELSE NoApp
    /\ pc' = "init_executor"
    /\ UNCHANGED <<cli, stream, delivered, block_number, client_input,
                   block_inputs, exit>>
    /\ UNCHANGED nvars

\* register_app(req).await: an Err is warned about and ignored, Ok(app)
RegisterRecv ==
    /\ pc = "register_await"
    /\ \E r \in {"ok", "already_registered", "other_err"} :
         /\ calls' = Respond(r)
         /\ logged' = IF r = "ok" THEN logged
                       ELSE Append(logged, LogLine("warn", "RegisterApp", r))
    /\ pc' = "init_executor"
    /\ UNCHANGED <<cli, app_id, stream, delivered, block_number, client_input,
                   block_inputs, exit>>
    /\ UNCHANGED nvars

\* block_executor(&cli).await?
InitExecutor ==
    /\ pc = "init_executor"
    /\ \E ok \in BOOLEAN :
         IF ok THEN pc' = "subscribe" /\ exit' = exit
         ELSE pc' = "done"
              /\ exit' = ExitErr(<<"failed to initialize block executor">>)
    /\ UNCHANGED <<cli, app_id, stream, delivered, block_number, client_input,
                   block_inputs, calls>>
    /\ UNCHANGED logged
    /\ UNCHANGED nvars

\* connect_ws(ws_conn).await? ; subscribe_blocks().await? ; into_stream().filter
Subscribe ==
    /\ pc = "subscribe"
    /\ \E ok \in BOOLEAN :
         IF ok THEN pc' = "watching" /\ stream' = "open" /\ exit' = exit
         ELSE pc' = "done" /\ stream' = stream
              /\ exit' = ExitErr(<<"websocket error">>)
    /\ UNCHANGED <<cli, app_id, delivered, block_number, client_input,
                   block_inputs, calls>>
    /\ UNCHANGED logged
    /\ UNCHANGED nvars

\* latest_block_receiver.next().await yields a header numbered n: the filter
\* closure is evaluated on it (a zero interval panics in `%`), a rejected
\* header is dropped, an accepted one enters the loop body
StreamNext(n) ==
    /\ pc = "watching"
    /\ stream = "open"
    /\ delivered' = Append(delivered, n)
    /\ IF cli.block_interval = 0
       THEN /\ pc' = "done"
            /\ exit' = ExitPanic(<<"remainder with a divisor of zero">>)
            /\ block_number' = block_number
       ELSE IF Filter(n)
            THEN pc' = "wait" /\ block_number' = n /\ exit' = exit
            ELSE pc' = "watching" /\ block_number' = block_number /\ exit' = exit
    /\ UNCHANGED <<cli, app_id, stream, client_input, block_inputs, calls>>
    /\ UNCHANGED logged
    /\ UNCHANGED nvars

\* latest_block_receiver.next().await yields None: the loop ends, Ok(())
StreamEnd ==
    /\ pc = "watching"
    /\ stream = "open"
    /\ stream' = "ended"
    /\ pc' = "done"
    /\ exit' = ExitOk
    /\ UNCHANGED <<cli, app_id, delivered, block_number, client_input,
                   block_inputs, calls>>
    /\ UNCHANGED logged
    /\ UNCHANGED nvars

\* faulty wait: a first failure of wait_for_block is retried once
WaitForBlockRetryOnce ==
    /\ pc = "wait"
    /\ \E ok \in BOOLEAN :
         /\ calls' = Append(calls, Call("wait_for_block", Len(delivered), block_number,
                                        NoApp, <<>>, <<>>, FALSE,
                                        IF ok THEN "ok" ELSE "err"))
         /\ IF ok THEN pc' = "execute" /\ exit' = exit
            ELSE IF calls[Len(calls)].op # "wait_for_block"
                 THEN pc' = "wait" /\ exit' = exit
                 ELSE pc' = "done"
                      /\ exit' = ExitErr(<<"failed to wait for block-">>
                                             \o Decimal(block_number))
    /\ UNCHANGED <<cli, app_id, stream, delivered, block_number, client_input,
                   block_inputs>>
    /\ UNCHANGED logged
    /\ UNCHANGED nvars

\* faulty wait: the result of wait_for_block is dropped, execute runs anyway
WaitForBlockIgnoreErr ==
    /\ pc = "wait"
    /\ \E ok \in BOOLEAN :
         calls' = Append(calls, Call("wait_for_block", Len(delivered), block_number,
                                     NoApp, <<>>, <<>>, FALSE,
                                     IF ok THEN "ok" ELSE "err"))
    /\ pc' = "execute"
    /\ UNCHANGED <<cli, app_id, stream, delivered, block_number, client_input,
                   block_inputs, exit>>
    /\ UNCHANGED logged
    /\ UNCHANGED nvars

\* block_executor.wait_for_block(block_number).await.map_err(..)?
WaitForBlock ==
    /\ pc = "wait"
    /\ \E ok \in BOOLEAN :
         /\ calls' = Append(calls, Call("wait_for_block", Len(delivered), block_number,
                                        NoApp, <<>>, <<>>, FALSE,
                                        IF ok THEN "ok" ELSE "err"))
         /\ IF ok THEN pc' = "execute" /\ exit' = exit
            ELSE pc' = "done"
                 /\ exit' = ExitErr(<<"failed to wait for block-">> \o Decimal(block_number))
    /\ UNCHANGED <<cli, app_id, stream, delivered, block_number, client_input,
                   block_inputs>>
    /\ UNCHANGED logged
    /\ UNCHANGED nvars

\* faulty execute: a failed block is skipped and the loop takes the next header
ExecuteSkipOnError ==
    /\ pc = "execute"
    /\ \/ \E w \in Witnesses :
            /\ client_input' = [block |-> block_number, witness |-> w]
            /\ calls' = Append(calls, Call("execute", Len(delivered), block_number,
                                           NoApp, <<>>, BincodeInput(client_input'),
                                           FALSE, "ok"))
            /\ pc' = "encode"
            /\ block_number' = block_number
       \/ /\ client_input' = NoInput
          /\ calls' = Append(calls, Call("execute", Len(delivered), block_number,
                                         NoApp, <<>>, <<>>, FALSE, "err"))
          /\ pc' = "watching"
          /\ block_number' = 0
    /\ UNCHANGED <<cli, app_id, stream, delivered, block_inputs, exit>>
    /\ UNCHANGED logged
    /\ UNCHANGED nvars

\* block_executor.execute(header.number, None).await.map_err(..)?
\* (the trace entry of a successful call keeps the image of the value returned)
Execute ==
    /\ pc = "execute"
    /\ \/ \E w \in Witnesses :
            /\ client_input' = [block |-> block_number, witness |-> w]
            /\ calls' = Append(calls, Call("execute", Len(delivered), block_number,
                                           NoApp, <<>>, BincodeInput(client_input'),
                                           FALSE, "ok"))
            /\ pc' = "encode"
            /\ exit' = exit
       \/ /\ client_input' = client_input
          /\ calls' = Append(calls, Call("execute", Len(delivered), block_number,
                                         NoApp, <<>>, <<>>, FALSE, "err"))
          /\ pc' = "done"
          /\ exit' = ExitErr(<<"failed to fetch block-">> \o Decimal(block_number))
    /\ UNCHANGED <<cli, app_id, stream, delivered, block_number, block_inputs>>
    /\ UNCHANGED logged
    /\ UNCHANGED nvars

\* faulty encoding: one builder is kept across iterations, so it still holds
\* the inputs written for earlier blocks
EncodeSharedBuilder ==
    /\ pc = "encode"
    /\ \E ok \in BOOLEAN :
         /\ calls' = Append(calls, Call("encode", Len(delivered), block_number,
                                        NoApp, <<>>, <<>>, FALSE,
                                        IF ok THEN "ok" ELSE "err"))
         /\ IF ok
            THEN /\ LET executed == SelectSeq(calls, LAMBDA c : c.op = "execute")
                        kept == [i \in 1..Len(executed) |-> executed[i].inputs]
                    IN  block_inputs' = SerializeBuilder(kept)
                 /\ pc' = "prove"
                 /\ exit' = exit
            ELSE /\ block_inputs' = block_inputs
                 /\ pc' = "done"
                 /\ exit' = ExitErr(<<"bincode error">>)
    /\ UNCHANGED <<cli, app_id, stream, delivered, block_number, client_input>>
    /\ UNCHANGED logged
    /\ UNCHANGED nvars

\* fresh builder, one write of client_input, bincode::serialize(&builder)?
Encode ==
    /\ pc = "encode"
    /\ \E ok \in BOOLEAN :
         /\ calls' = Append(calls, Call("encode", Len(delivered), block_number,
                                        NoApp, <<>>, <<>>, FALSE,
                                        IF ok THEN "ok" ELSE "err"))
         /\ IF ok
            THEN /\ block_inputs' = SerializeBuilder(BuilderWrite(NewBuilder, client_input))
                 /\ pc' = "prove"
                 /\ exit' = exit
            ELSE /\ block_inputs' = block_inputs
                 /\ pc' = "done"
                 /\ exit' = ExitErr(<<"bincode error">>)
    /\ UNCHANGED <<cli, app_id, stream, delivered, block_number, client_input>>
    /\ UNCHANGED logged
    /\ UNCHANGED nvars

\* faulty submission: the call is spawned and not awaited
ProveTaskSendDetached ==
    /\ pc = "prove"
    /\ calls' = Append(calls, Call("prove_task", Len(delivered), block_number, app_id,
                                   TaskId(block_number), block_inputs,
                                   cli.use_gpu, "pending"))
    /\ pc' = "watching"
    /\ block_number' = 0
    /\ client_input' = NoInput
    /\ block_inputs' = <<>>
    /\ UNCHANGED <<cli, app_id, stream, delivered, exit>>
    /\ UNCHANGED logged
    /\ UNCHANGED nvars

\* prove_task(&mut client, ProveTaskRequest {..}): the request goes out
ProveTaskSend ==
    /\ pc = "prove"
    /\ calls' = Append(calls, Call("prove_task", Len(delivered), block_number, app_id,
                                   TaskId(block_number), block_inputs,
                                   cli.use_gpu, "pending"))
    /\ pc' = "prove_await"
    /\ UNCHANGED <<cli, app_id, stream, delivered, block_number, client_input,
                   block_inputs, exit>>
    /\ UNCHANGED logged
    /\ UNCHANGED nvars

\* faulty loop: the body ends with a break, the stream is not polled again
EndIterationLeavesLoop ==
    /\ pc' = "done"
    /\ block_number' = 0
    /\ client_input' = NoInput
    /\ block_inputs' = <<>>

\* end of one loop iteration: the locals of the body are dropped
EndIteration ==
    /\ pc' = "watching"
    /\ block_number' = 0
    /\ client_input' = NoInput
    /\ block_inputs' = <<>>

\* faulty prove_task: a transport failure is logged like an embedded error
ProveTaskRecvIgnoreErr ==
    /\ pc = "prove_await"
    /\ \E r \in {"ok", "embedded_err", "transport_err"} :
         /\ calls' = Respond(r)
         /\ logged' = Append(logged, LogLine("info", "ProveTask", ErrField(r)))
    /\ exit' = exit
    /\ IF cli.estimate_cost
       THEN /\ pc' = "estimate"
            /\ UNCHANGED <<block_number, client_input, block_inputs>>
       ELSE EndIteration
    /\ UNCHANGED <<cli, app_id, stream, delivered>>
    /\ UNCHANGED nvars

\* faulty prove_task: an embedded error of the response is returned as Err
ProveTaskRecvEmbeddedFatal ==
    /\ pc = "prove_await"
    /\ \E r \in {"ok", "embedded_err", "transport_err"} :
         /\ calls' = Respond(r)
         /\ IF r # "ok"
            THEN /\ pc' = "done"
                 /\ exit' = ExitErr(<<"grpc status">>)
                 /\ UNCHANGED <<block_number, client_input, block_inputs, logged>>
            ELSE /\ exit' = exit
                 /\ logged' = Append(logged, LogLine("info", "ProveTask", ErrField(r)))
                 /\ IF cli.estimate_cost
                    THEN /\ pc' = "estimate"
                         /\ UNCHANGED <<block_number, client_input, block_inputs>>
                    ELSE EndIteration
    /\ UNCHANGED <<cli, app_id, stream, delivered>>
    /\ UNCHANGED nvars

\* .prove_task(request).await?.into_inner(); the err field is only logged
ProveTaskRecv ==
    /\ pc = "prove_await"
    /\ \E r \in {"ok", "embedded_err", "transport_err"} :
         /\ calls' = Respond(r)
         /\ IF r = "transport_err"
            THEN /\ pc' = "done"
                 /\ exit' = ExitErr(<<"grpc status">>)
                 /\ UNCHANGED <<block_number, client_input, block_inputs, logged>>
            ELSE /\ exit' = exit
                 /\ logged' = Append(logged, LogLine("info", "ProveTask", ErrField(r)))
                 /\ IF cli.estimate_cost
                    THEN /\ pc' = "estimate"
                         /\ UNCHANGED <<block_number, client_input, block_inputs>>
                    ELSE EndIteration
    /\ UNCHANGED <<cli, app_id, stream, delivered>>
    /\ UNCHANGED nvars

\* faulty estimation request: the raw artifact image is sent, not the
\* serialized builder
EstimateCostSendRaw ==
    /\ pc = "estimate"
    /\ calls' = Append(calls, Call("estimate_cost", Len(delivered), block_number, app_id,
                                   <<>>, BincodeInput(client_input), FALSE, "pending"))
    /\ pc' = "estimate_await"
    /\ UNCHANGED <<cli, app_id, stream, delivered, block_number, client_input,
                   block_inputs, exit>>
    /\ UNCHANGED logged
    /\ UNCHANGED nvars

\* estimate_cost(&mut client, EstimateCostRequest {..}): the request goes out
EstimateCostSend ==
    /\ pc = "estimate"
    /\ calls' = Append(calls, Call("estimate_cost", Len(delivered), block_number, app_id,
                                   <<>>, block_inputs, FALSE, "pending"))
    /\ pc' = "estimate_await"
    /\ UNCHANGED <<cli, app_id, stream, delivered, block_number, client_input,
                   block_inputs, exit>>
    /\ UNCHANGED logged
    /\ UNCHANGED nvars

\* .estimate_cost(request).await?.into_inner(); the response is only logged
EstimateCostRecv ==
    /\ pc = "estimate_await"
    /\ \E r \in {"ok", "embedded_err", "transport_err"} :
         /\ calls' = Respond(r)
         /\ IF r = "transport_err"
            THEN /\ pc' = "done"
                 /\ exit' = ExitErr(<<"grpc status">>)
                 /\ UNCHANGED <<block_number, client_input, block_inputs, logged>>
            ELSE /\ exit' = exit
                 /\ logged' = Append(logged, LogLine("info", "EstimateCost", ErrField(r)))
                 /\ EndIteration
    /\ UNCHANGED <<cli, app_id, stream, delivered>>
    /\ UNCHANGED nvars

\* ------------------------------------------------ the offline converter
\* faulty converter: the output file is created before the input is read
NormOpenCreatesFirst ==
    /\ norm_pc = "open"
    /\ output_file' = FileOf(<<>>)
    /\ \E ok \in BOOLEAN :
         /\ ok => input_file.exists
         /\ IF ok THEN norm_pc' = "deserialize" /\ norm_exit' = norm_exit
            ELSE norm_pc' = "done" /\ norm_exit' = ExitErr(<<"io error">>)
    /\ UNCHANGED <<input_file, norm_input, stdin_builder>>
    /\ UNCHANGED pvars

\* File::open(cli.input)?
NormOpen ==
    /\ norm_pc = "open"
    /\ \E ok \in BOOLEAN :
         /\ ok => input_file.exists
         /\ IF ok THEN norm_pc' = "deserialize" /\ norm_exit' = norm_exit
            ELSE norm_pc' = "done" /\ norm_exit' = ExitErr(<<"io error">>)
    /\ UNCHANGED <<input_file, norm_input, stdin_builder, output_file>>
    /\ UNCHANGED pvars

\* bincode::deserialize_from(&mut input_file)?
NormDeserialize ==
    /\ norm_pc = "deserialize"
    /\ IF DeserializeInput(input_file.bytes).ok
       THEN /\ norm_input' = DeserializeInput(input_file.bytes).value
            /\ norm_pc' = "write"
            /\ norm_exit' = norm_exit
       ELSE /\ norm_input' = norm_input
            /\ norm_pc' = "done"
            /\ norm_exit' = ExitErr(<<"bincode error">>)
    /\ UNCHANGED <<input_file, stdin_builder, output_file>>
    /\ UNCHANGED pvars

\* EmulatorStdin::new_builder::<SC>() ; stdin_builder.write(&client_input)
NormWrite ==
    /\ norm_pc = "write"
    /\ stdin_builder' = BuilderWrite(NewBuilder, norm_input)
    /\ norm_pc' = "create"
    /\ UNCHANGED <<input_file, norm_input, output_file, norm_exit>>
    /\ UNCHANGED pvars

\* File::create(cli.output)?: the file is created or truncated
NormCreate ==
    /\ norm_pc = "create"
    /\ \E ok \in BOOLEAN :
         IF ok THEN /\ output_file' = FileOf(<<>>)
                    /\ norm_pc' = "serialize"
                    /\ norm_exit' = norm_exit
         ELSE /\ output_file' = output_file
              /\ norm_pc' = "done"
              /\ norm_exit' = ExitErr(<<"io error">>)
    /\ UNCHANGED <<input_file, norm_input, stdin_builder>>
    /\ UNCHANGED pvars

\* bincode::serialize_into(&mut output_file, &stdin_builder)? ; Ok(()):
\* a failing write leaves some of the bytes in the file
NormSerialize ==
    /\ norm_pc = "serialize"
    /\ \/ /\ output_file' = FileOf(SerializeBuilder(stdin_builder))
          /\ norm_exit' = ExitOk
       \/ \E cut \in 0..(Len(SerializeBuilder(stdin_builder)) - 1) :
            /\ output_file' = FileOf(SubSeq(SerializeBuilder(stdin_builder), 1, cut))
            /\ norm_exit' = ExitErr(<<"bincode error">>)
    /\ norm_pc' = "done"
    /\ UNCHANGED <<input_file, norm_input, stdin_builder>>
    /\ UNCHANGED pvars

\* every step of the converter
NormStep ==
    \/ NormOpen
    \/ NormDeserialize
    \/ NormWrite
    \/ NormCreate
    \/ NormSerialize

\* every step of main except the arrival of a header
Step ==
    \/ ConnectGrpc
    \/ RegisterSend
    \/ RegisterRecv
    \/ InitExecutor
    \/ Subscribe
    \/ StreamEnd
    \/ WaitForBlock
    \/ Execute
    \/ Encode
    \/ ProveTaskSend
    \/ ProveTaskRecv
    \/ EstimateCostSend
    \/ EstimateCostRecv

\* the subscription delivers at most MaxHeaders headers, numbered in Blocks
Next ==
    \/ Step
    \/ \E n \in Blocks : Len(delivered) < MaxHeaders /\ StreamNext(n)
    \/ NormStep

Spec == Init /\ [][Next]_vars

\* the end-to-end scenario: the default interval and a fixed header sequence
Scenario == <<98, 99, 100, 150, 200>>

ScenarioInit == InitWith({DefaultBlockInterval})

ScenarioNext ==
    \/ Step
    \/ Len(delivered) < Len(Scenario) /\ StreamNext(Scenario[Len(delivered) + 1])

ScenarioSpec == ScenarioInit /\ [][ScenarioNext]_vars

\* the steps of the loop body: each is a future main awaits, which the runtime
\* keeps polling and which ends once the awaited call has ended; the arrival
\* of headers and the end of the stream are up to the node, not to main
Body ==
    \/ WaitForBlock
    \/ Execute
    \/ Encode
    \/ ProveTaskSend
    \/ ProveTaskRecv
    \/ EstimateCostSend
    \/ EstimateCostRecv

FairSpec == Spec /\ WF_vars(Body)

TypeOK ==
    /\ pc \in {"none", "connect_grpc", "register", "register_await", "init_executor",
               "subscribe", "watching", "wait", "execute", "encode", "prove",
               "prove_await", "estimate", "estimate_await", "done"}
    /\ stream \in {"none", "open", "ended"}
    /\ exit.kind \in {"none", "ok", "err", "panic"}
    /\ (pc = "done") = (exit.kind # "none")
    /\ norm_pc \in {"none", "open", "deserialize", "write", "create", "serialize", "done"}
    /\ (norm_pc = "done") = (norm_exit.kind # "none")
    /\ pc = "none" \/ norm_pc = "none"

\* ------------------------------------------------- vocabulary of the claims
CallIdx == 1..Len(calls)
HdrIdx == 1..Len(delivered)
RemoteOps == {"register_app", "prove_task", "estimate_cost"}
Pending == {k \in CallIdx : calls[k].result = "pending"}

\* some call of kind op was issued for the header delivered at position i
Issued(op, i) == \E k \in CallIdx : calls[k].op = op /\ calls[k].hdr = i

\* the loop body was entered for the header delivered at position i
Triggered(i) ==
    \/ Issued("wait_for_block", i)
    \/ i = Len(delivered) /\ pc = "wait" /\ block_number = delivered[i]

\* C1: with interval > 0, the header delivered at any position triggers a
\* pipeline run iff its number is divisible by the interval, and a
\* non-divisible header causes no execute, ProveTask or EstimateCost call.
C1_FilterIff ==
    cli.block_interval > 0 =>
        \A i \in HdrIdx :
            /\ Triggered(i) <=> (delivered[i] % cli.block_interval = 0)
            /\ delivered[i] % cli.block_interval # 0 =>
                   \A k \in CallIdx : calls[k].hdr # i

C1_Witness ==
    /\ cli.block_interval > 0
    /\ \E i, j \in HdrIdx :
         /\ i < j
         /\ delivered[i] % cli.block_interval # 0
         /\ delivered[j] % cli.block_interval = 0
         /\ Issued("prove_task", j)

\* C2: a block interval of 0 is rejected at configuration time: with
\* interval 0 the application is never registered, the subscription is never
\* opened, no header is evaluated, and the run ends only with an error.
C2_ZeroIntervalRejected ==
    cli.block_interval = 0 =>
        /\ calls = <<>>
        /\ stream = "none"
        /\ delivered = <<>>
        /\ exit.kind \in {"none", "err"}

\* C3: a failed wait_for_block or execute for a block means no ProveTask and
\* no EstimateCost for that header, the run has ended with an error, nothing
\* was issued afterwards and no later header was taken.
C3_AcquisitionFailFast ==
    \A k \in CallIdx :
        (calls[k].op \in {"wait_for_block", "execute"} /\ calls[k].result = "err") =>
            /\ ~Issued("prove_task", calls[k].hdr)
            /\ ~Issued("estimate_cost", calls[k].hdr)
            /\ pc = "done"
            /\ exit.kind = "err"
            /\ k = Len(calls)
            /\ Len(delivered) = calls[k].hdr

C3_Witness ==
    /\ Len(delivered) = 2
    /\ Issued("prove_task", 1)
    /\ \E k \in CallIdx : /\ calls[k].op = "execute"
                          /\ calls[k].result = "err"
                          /\ calls[k].hdr = 2

\* C4: a transport failure of ProveTask or EstimateCost ends the run with an
\* error at once: it is the last call issued (no EstimateCost after a failed
\* ProveTask), no later header is taken, and when EstimateCost fails the
\* ProveTask of the same block stays submitted as it was answered.
C4_RemoteFailFast ==
    \A k \in CallIdx :
        (calls[k].op \in {"prove_task", "estimate_cost"}
            /\ calls[k].result = "transport_err") =>
            /\ k = Len(calls)
            /\ pc = "done"
            /\ exit.kind = "err"
            /\ Len(delivered) = calls[k].hdr
            /\ calls[k].op = "estimate_cost" =>
                   /\ calls[k - 1].op = "prove_task"
                   /\ calls[k - 1].hdr = calls[k].hdr
                   /\ calls[k - 1].result \in {"ok", "embedded_err"}

C4_Witness ==
    /\ cli.estimate_cost
    /\ Issued("estimate_cost", 1)
    /\ \E k \in CallIdx : /\ calls[k].op = "prove_task"
                          /\ calls[k].result = "transport_err"
                          /\ calls[k].hdr = 2

\* C5: once the header stream has ended (the connection dropped) the run is
\* in the error outcome, never in a successful one.
C5_StreamEndIsFatal == stream = "ended" => exit.kind = "err"

\* C6: the step that receives a failed RegisterApp answer ("already
\* registered" or any other error) never ends the run: main goes on to set
\* up the block executor with no exit recorded.
C6_RegisterFailureAbsorbed ==
    [][(pc = "register_await"
          /\ calls'[Len(calls')].result \in {"already_registered", "other_err"})
        => (pc' = "init_executor" /\ exit'.kind = "none")]_vars

C6_Witness ==
    /\ calls # <<>>
    /\ calls[1].op = "register_app"
    /\ calls[1].result \in {"already_registered", "other_err"}
    /\ \E i \in HdrIdx : Issued("prove_task", i)

\* C7: for every header the steps come in the order wait_for_block, execute,
\* encode, ProveTask: each step is issued directly after the successful
\* previous step of the same header and block.
Follows(k, prevOp) ==
    /\ k > 1
    /\ calls[k - 1].op = prevOp
    /\ calls[k - 1].result = "ok"
    /\ calls[k - 1].hdr = calls[k].hdr
    /\ calls[k - 1].block = calls[k].block

C7_StepOrder ==
    \A k \in CallIdx :
        /\ calls[k].op = "execute" => Follows(k, "wait_for_block")
        /\ calls[k].op = "encode" => Follows(k, "execute")
        /\ calls[k].op = "prove_task" => Follows(k, "encode")
        /\ calls[k].op = "wait_for_block" =>
               /\ calls[k].hdr \in HdrIdx
               /\ calls[k].block = delivered[calls[k].hdr]

C7_Witness == Issued("prove_task", 1) /\ Issued("prove_task", 2)

\* C8: EstimateCost is issued only with estimation enabled, directly after
\* the ProveTask of the same header once that call returned without a
\* transport failure, with the same application identity and the same input
\* bytes; with estimation enabled every such ProveTask is followed by it (or
\* main stands right before sending it).
C8_EstimateAfterProve ==
    /\ \A k \in CallIdx :
         calls[k].op = "estimate_cost" =>
             /\ cli.estimate_cost
             /\ k > 1
             /\ calls[k - 1].op = "prove_task"
             /\ calls[k - 1].result \in {"ok", "embedded_err"}
             /\ calls[k - 1].hdr = calls[k].hdr
             /\ calls[k - 1].app_id = calls[k].app_id
             /\ calls[k - 1].inputs = calls[k].inputs
    /\ \A k \in CallIdx :
         (calls[k].op = "prove_task" /\ calls[k].result \in {"ok", "embedded_err"}) =>
             IF cli.estimate_cost
             THEN \/ k < Len(calls) /\ calls[k + 1].op = "estimate_cost"
                                    /\ calls[k + 1].hdr = calls[k].hdr
                  \/ k = Len(calls) /\ pc = "estimate"
             ELSE ~Issued("estimate_cost", calls[k].hdr)
    /\ \A k \in CallIdx :
         (calls[k].op = "prove_task" /\ calls[k].result \in {"pending", "transport_err"}) =>
             ~Issued("estimate_cost", calls[k].hdr)

C8_Witness ==
    \E j, k \in CallIdx :
        /\ calls[j].op = "estimate_cost"
        /\ calls[j].hdr = 1
        /\ calls[k].op = "estimate_cost"
        /\ calls[k].hdr = 2
        /\ calls[k].inputs # calls[j].inputs
        /\ calls[k].result # "pending"

\* C9: block processing is sequential: at most one call is unanswered and it
\* is the last one issued; while main waits for the next header nothing is
\* unanswered and no block is held; the calls appear header by header, and
\* every header before the latest one had its sequence completed (ProveTask,
\* and EstimateCost when enabled, answered without transport failure).
LastCallOf(i) ==
    CHOOSE k \in CallIdx :
        /\ calls[k].hdr = i
        /\ \A j \in CallIdx : calls[j].hdr = i => j <= k

Completed(i) ==
    /\ calls[LastCallOf(i)].op = (IF cli.estimate_cost THEN "estimate_cost" ELSE "prove_task")
    /\ calls[LastCallOf(i)].result \in {"ok", "embedded_err"}

C9_Sequential ==
    /\ Cardinality(Pending) <= 1
    /\ Pending \subseteq {Len(calls)}
    /\ pc = "watching" => Pending = {} /\ block_number = 0
    /\ \A k \in CallIdx : k > 1 => calls[k - 1].hdr <= calls[k].hdr
    /\ \A i \in HdrIdx :
         (Triggered(i) /\ (i < Len(delivered) \/ pc = "watching")) => Completed(i)

C9_Witness ==
    /\ Len(delivered) = 2
    /\ Issued("prove_task", 1)
    /\ \E k \in Pending : calls[k].op = "prove_task" /\ calls[k].hdr = 2

\* C10: the task identifier of every ProveTask request is the text
\* "task-block-" followed by the canonical decimal numeral of the block
\* number of the header being processed, and nothing else: it does not vary
\* with the GPU flag, the estimation flag or the blocks processed before.
TaskPrefix == <<"t", "a", "s", "k", "-", "b", "l", "o", "c", "k", "-">>
IsDigit(c) == \E d \in 0..9 : DigitChar(d) = c
DigitOf(c) == CHOOSE d \in 0..9 : DigitChar(d) = c

RECURSIVE NumeralValue(_)
NumeralValue(ds) ==
    IF ds = <<>> THEN 0
    ELSE 10 * NumeralValue(SubSeq(ds, 1, Len(ds) - 1)) + DigitOf(ds[Len(ds)])

IsNumeralOf(ds, n) ==
    /\ Len(ds) >= 1
    /\ \A p \in 1..Len(ds) : IsDigit(ds[p])
    /\ Len(ds) > 1 => ds[1] # "0"
    /\ NumeralValue(ds) = n

IsTaskIdOf(t, n) ==
    /\ Len(t) > Len(TaskPrefix)
    /\ SubSeq(t, 1, Len(TaskPrefix)) = TaskPrefix
    /\ IsNumeralOf(SubSeq(t, Len(TaskPrefix) + 1, Len(t)), n)

C10_TaskIdByBlock ==
    /\ \A k \in CallIdx :
         calls[k].op = "prove_task" =>
             /\ calls[k].block = delivered[calls[k].hdr]
             /\ IsTaskIdOf(calls[k].task_id, calls[k].block)
    /\ \A j, k \in CallIdx :
         (calls[j].op = "prove_task" /\ calls[k].op = "prove_task"
            /\ calls[j].block = calls[k].block) => calls[j].task_id = calls[k].task_id

C10_Witness ==
    \E j, k \in CallIdx :
        /\ j < k
        /\ calls[j].op = "prove_task"
        /\ calls[k].op = "prove_task"
        /\ calls[j].block = calls[k].block
        /\ calls[j].block >= 10
        /\ calls[j].inputs # calls[k].inputs

\* C11: the block numbers of the ProveTask requests, in the order sent, are a
\* prefix of the delivered headers divisible by the interval, in arrival
\* order, and are all of them once every triggered header was processed
\* without failure; with interval 100 and the headers 98, 99, 100, 150, 200
\* that is exactly block 100 and then block 200.
Divisible(n) == n % cli.block_interval = 0

RECURSIVE ProveBlocksUpTo(_)
ProveBlocksUpTo(k) ==
    IF k = 0 THEN <<>>
    ELSE IF calls[k].op = "prove_task"
         THEN Append(ProveBlocksUpTo(k - 1), calls[k].block)
         ELSE ProveBlocksUpTo(k - 1)

ProveBlocks == ProveBlocksUpTo(Len(calls))

IsPrefix(a, b) == Len(a) <= Len(b) /\ SubSeq(b, 1, Len(a)) = a

NoFailure ==
    /\ exit.kind \in {"none", "ok"}
    /\ \A k \in CallIdx : calls[k].result \notin {"err", "transport_err"}

Settled == pc = "watching" \/ (pc = "done" /\ exit.kind = "ok")

C11_ProveOrder ==
    cli.block_interval > 0 =>
        /\ IsPrefix(ProveBlocks, SelectSeq(delivered, Divisible))
        /\ (NoFailure /\ Settled) => ProveBlocks = SelectSeq(delivered, Divisible)
        /\ (NoFailure /\ Settled /\ cli.block_interval = DefaultBlockInterval
              /\ delivered = Scenario) => ProveBlocks = <<100, 200>>

C11_Witness ==
    /\ cli.block_interval = DefaultBlockInterval
    /\ delivered = Scenario
    /\ NoFailure
    /\ Settled
    /\ Len(ProveBlocks) = 2

\* C12: a ProveTask or EstimateCost response that carries an embedded error
\* is logged (one info line showing the error per such response) and the
\* step receiving it does not end the run: main goes on to EstimateCost or
\* to the next header; a step receiving a response ends the run only for a
\* transport failure.
CountCalls(op, r) == Cardinality({k \in CallIdx : calls[k].op = op /\ calls[k].result = r})
CountLines(line) == Cardinality({l \in 1..Len(logged) : logged[l] = line})

EmbeddedErrorsLogged ==
    /\ CountCalls("prove_task", "embedded_err")
         = CountLines(LogLine("info", "ProveTask", "Some"))
    /\ CountCalls("estimate_cost", "embedded_err")
         = CountLines(LogLine("info", "EstimateCost", "Some"))

EmbeddedErrorContinues ==
    /\ (pc = "prove_await" /\ calls'[Len(calls')].result = "embedded_err") =>
           /\ exit'.kind = "none"
           /\ pc' = (IF cli.estimate_cost THEN "estimate" ELSE "watching")
    /\ (pc = "estimate_await" /\ calls'[Len(calls')].result = "embedded_err") =>
           /\ exit'.kind = "none"
           /\ pc' = "watching"
    /\ (pc \in {"prove_await", "estimate_await"} /\ exit'.kind # "none") =>
           calls'[Len(calls')].result = "transport_err"

C12_EmbeddedErrorNotFatal == []EmbeddedErrorsLogged /\ [][EmbeddedErrorContinues]_vars

C12_Witness ==
    /\ \E k \in CallIdx : /\ calls[k].op = "prove_task"
                          /\ calls[k].result = "embedded_err"
                          /\ calls[k].hdr = 1
    /\ \E k \in CallIdx : /\ calls[k].op = "estimate_cost"
                          /\ calls[k].result = "embedded_err"
                          /\ calls[k].hdr = 1
    /\ Issued("prove_task", 2)

\* C13: whenever the run has stopped with an error while a block was being
\* processed, the error message contains the decimal block number.
Mentions(msg, n) ==
    \E p \in 1..Len(msg) :
        /\ p + Len(Decimal(n)) - 1 <= Len(msg)
        /\ SubSeq(msg, p, p + Len(Decimal(n)) - 1) = Decimal(n)

C13_FatalErrorNamesBlock ==
    (exit.kind = "err" /\ block_number # 0) => Mentions(exit.msg, block_number)

\* C14: a run of the converter makes no network call (no subscription, no
\* RegisterApp, ProveTask or EstimateCost); the builder it serializes holds
\* exactly one write, of the value read from the input file; a successful
\* run leaves the serialized builder in the output file; and when opening or
\* deserializing the input fails the output path is left as it was (the
\* steps before File::create never touch it).
InputFailed == norm_pc = "done" /\ norm_exit.kind = "err" /\ norm_input = NoInput

ConverterState ==
    norm_pc # "none" =>
        /\ pc = "none" /\ calls = <<>> /\ stream = "none" /\ delivered = <<>>
        /\ norm_pc \in {"create", "serialize"} \/ norm_exit.kind = "ok" =>
               /\ DeserializeInput(input_file.bytes).ok
               /\ norm_input = DeserializeInput(input_file.bytes).value
               /\ stdin_builder = <<BincodeInput(norm_input)>>
        /\ norm_exit.kind = "ok" =>
               output_file = FileOf(SerializeBuilder(stdin_builder))
        /\ InputFailed => output_file \in {NoFile, OldOutput}

ConverterReadsFirst ==
    norm_pc \in {"open", "deserialize", "write"} => output_file' = output_file

C14_OfflineConversion == []ConverterState /\ [][ConverterReadsFirst]_vars

C14_Witness ==
    /\ norm_pc = "done" /\ norm_exit.kind = "ok"
    /\ norm_input.block = 12345
    /\ output_file = FileOf(SerializeBuilder(<<BincodeInput(norm_input)>>))

\* C15: the bytes produced by the encoding decode to a builder with exactly
\* one written value, and that value decodes to the execution input that was
\* written: for the bytes the pipeline holds and sends, and for the file the
\* converter writes.
RoundTrips(bytes, x) ==
    LET d == DeserializeBuilder(bytes)
    IN  /\ d.ok
        /\ Len(d.builder) = 1
        /\ DeserializeInput(d.builder[1]).ok
        /\ DeserializeInput(d.builder[1]).value = x

C15_RoundTrip ==
    /\ pc \in {"prove", "prove_await", "estimate", "estimate_await"} =>
           RoundTrips(block_inputs, client_input)
    /\ \A k \in CallIdx :
           calls[k].op \in {"prove_task", "estimate_cost"} =>
               \E w \in Witnesses :
                   RoundTrips(calls[k].inputs, [block |-> calls[k].block, witness |-> w])
    /\ (norm_pc = "done" /\ norm_exit.kind = "ok") =>
           RoundTrips(output_file.bytes, norm_input)

C15_Witness ==
    /\ pc = "estimate_await"
    /\ \E k \in CallIdx :
           /\ calls[k].op = "estimate_cost"
           /\ calls[k].inputs = block_inputs
           /\ RoundTrips(block_inputs, client_input)

\* C16: RegisterApp is called at most once in a run; once the subscription
\* is open, or any wait, execute, ProveTask or EstimateCost call has been
\* made, it has been called exactly once, as the first call, and that call
\* has completed (successfully or not).
RegisterCalls == {k \in CallIdx : calls[k].op = "register_app"}

PastRegistration ==
    \/ stream # "none"
    \/ pc \in {"init_executor", "subscribe"}
    \/ \E k \in CallIdx : calls[k].op # "register_app"

C16_RegisterOnce ==
    /\ Cardinality(RegisterCalls) <= 1
    /\ PastRegistration =>
           /\ RegisterCalls = {1}
           /\ calls[1].result \in {"ok", "already_registered", "other_err"}

C16_Witness ==
    /\ RegisterCalls = {1}
    /\ calls[1].result = "already_registered"
    /\ Len(delivered) = MaxHeaders
    /\ pc = "watching"
    /\ Cardinality({k \in CallIdx : calls[k].op = "prove_task"}) = 2

\* C17: no retry: for each delivered header there is at most one
\* wait_for_block call, one execute call, one ProveTask call and one
\* EstimateCost call, a failed step is followed by no further call, and a
\* failed RegisterApp is not attempted again.
CallsOf(op, i) == {k \in CallIdx : calls[k].op = op /\ calls[k].hdr = i}

Failed(k) == calls[k].result \in {"err", "transport_err"}

C17_NoRetry ==
    /\ \A i \in HdrIdx :
         \A op \in {"wait_for_block", "execute", "prove_task", "estimate_cost"} :
             Cardinality(CallsOf(op, i)) <= 1
    /\ \A k \in CallIdx : Failed(k) => k = Len(calls)
    /\ \A k \in RegisterCalls :
         calls[k].result \in {"already_registered", "other_err"} =>
             \A j \in CallIdx : j > k => calls[j].op # "register_app"

C17_Witness ==
    /\ Len(calls) >= 2
    /\ calls[1].op = "register_app" /\ calls[1].result = "other_err"
    /\ calls[Len(calls)].op = "wait_for_block"
    /\ calls[Len(calls)].result = "err"
    /\ calls[Len(calls)].hdr = 2
    /\ pc = "done"

\* C18: the application identity is derived from the program bytes when the
\* RegisterApp request is built and is not changed by the response: every
\* ProveTask and EstimateCost request carries the identity derived from the
\* bytes that were sent for registration, whether that call succeeded or
\* failed.
IdentityIsLocal ==
    /\ RegisterCalls # {} => app_id = AppNew(calls[1].inputs[1])
    /\ \A k \in CallIdx :
           calls[k].op \in {"prove_task", "estimate_cost"} =>
               /\ RegisterCalls = {1}
               /\ calls[k].app_id = AppNew(calls[1].inputs[1])

IdentityKeptByResponse == pc = "register_await" => app_id' = app_id

C18_AppIdentityLocal == []IdentityIsLocal /\ [][IdentityKeptByResponse]_vars

C18_Witness ==
    /\ RegisterCalls = {1}
    /\ calls[1].result = "other_err"
    /\ \E k, j \in CallIdx :
           /\ calls[k].op = "prove_task"
           /\ calls[j].op = "estimate_cost"
           /\ calls[k].app_id = AppNew(calls[1].inputs[1])
           /\ calls[j].app_id = calls[k].app_id
           /\ calls[k].app_id # NoApp

\* C19: every ProveTask request whose task identifier names block N carries
\* exactly the encoding of a one-write builder holding the execution input
\* that the execute call of the same pipeline run returned for block N,
\* never bytes or builder contents of an earlier block.
EncodingOfExecuted(k, N) ==
    /\ k > 2
    /\ calls[k - 2].op = "execute"
    /\ calls[k - 2].result = "ok"
    /\ calls[k - 2].hdr = calls[k].hdr
    /\ calls[k - 2].block = N
    /\ calls[k].inputs = SerializeBuilder(<<calls[k - 2].inputs>>)

C19_FreshEncoding ==
    \A k \in CallIdx :
        calls[k].op = "prove_task" =>
            \A N \in Blocks :
                IsTaskIdOf(calls[k].task_id, N) => EncodingOfExecuted(k, N)

C19_Witness ==
    \E j, k \in CallIdx :
        /\ j < k
        /\ calls[j].op = "prove_task" /\ calls[k].op = "prove_task"
        /\ calls[j].block # calls[k].block
        /\ EncodingOfExecuted(j, calls[j].block)
        /\ EncodingOfExecuted(k, calls[k].block)

\* C20: under fair scheduling of the loop body, every delivered header that
\* entered the body is followed either by a failed step or by the completion
\* of its run: its ProveTask has been submitted and answered (and with
\* estimation enabled its EstimateCost too) and main is back at watching the
\* stream. In a run where every step succeeds, every filtered header is
\* therefore processed to the end.
Failure == exit.kind \in {"err", "panic"}

\* main has come back to the stream after the header at position i: it is
\* watching, or has since taken a later header or the end of the stream
\* (both are only taken while watching)
BackAtStream(i) == pc = "watching" \/ Len(delivered) > i \/ stream = "ended"

Processed(i) ==
    /\ Issued("prove_task", i)
    /\ cli.estimate_cost => Issued("estimate_cost", i)
    /\ \A k \in CallIdx : calls[k].hdr = i => calls[k].result \in {"ok", "embedded_err"}
    /\ BackAtStream(i)

C20_Progress ==
    \A i \in 1..MaxHeaders :
        (i \in HdrIdx /\ Triggered(i)) ~> (Failure \/ Processed(i))

C20_Witness ==
    /\ cli.estimate_cost
    /\ Len(delivered) = MaxHeaders
    /\ \A i \in HdrIdx : Triggered(i) /\ Processed(i)
    /\ pc = "watching"
    /\ ~Failure
====
